---- MODULE Spec2Model ----
(***************************************************************************)
(* Model of app.py: the in-memory alert table `alerts`, the Flask handlers *)
(* set_alert and test_email (one thread per request), the scheduled job    *)
(* check_alerts, get_crypto_price and send_email_alert.                    *)
(*                                                                         *)
(* Spec interleaves the request threads with the job.  SpecFetch follows   *)
(* one call of get_crypto_price request by request; SpecTicks follows runs *)
(* of the job one after the other over a table at rest.                    *)
(*                                                                         *)
(* Python objects are modelled with their identity: `alerts` is an         *)
(* insertion-ordered dict from symbol to a reference into `heap`, the      *)
(* list objects.  Handler threads and the job thread interleave between    *)
(* the statements that touch shared objects.                               *)
(***************************************************************************)
EXTENDS Integers, Sequences, FiniteSets, TLC

\* ------------------------------------------------------------- bounds
MaxRequests == 2      \* registration requests over a run, one thread each
MaxWorkers == 2       \* scheduler executor threads that could run the job
MaxPrice == 3         \* prices returned by the price source: 0..MaxPrice
MaxAttempts == 8      \* requests one call of session.get is followed through

\* ------------------------------------------------------------- values
\* A Python float: a number or NaN (every comparison with NaN is False).
Num(n) == [nan |-> FALSE, v |-> n]
NaN == [nan |-> TRUE, v |-> 0]

FloatGT(a, b) == ~a.nan /\ ~b.nan /\ a.v > b.v
FloatLT(a, b) == ~a.nan /\ ~b.nan /\ a.v < b.v
FloatLE(a, b) == ~a.nan /\ ~b.nan /\ a.v <= b.v

\* (upper_bound, lower_bound) of a request: one pair for each way the two
\* can compare (above, equal, below, unordered)
InputBounds ==
  {<<Num(2), Num(1)>>, <<Num(1), Num(1)>>, <<Num(1), Num(2)>>, <<NaN, Num(1)>>}
InputSymbols == {"BTC", "btc", "eth"}
Prices == {Num(p) : p \in 0..MaxPrice}

\* str.lower() on the symbols of the model
lower(s) == IF s = "BTC" THEN "btc" ELSE s

\* the development server starts one thread per request
HandlerIds == 1..MaxRequests
WorkerIds == 1..MaxWorkers

\* data['email'] of request h. The code only copies the address, so every
\* request carries its own.
Email(h) == <<"user", h>>

VARIABLES
  alerts,     \* the dict: sequence of [key, ref] in insertion order
  heap,       \* the list objects: heap[ref] is a sequence of rule dicts
  handlers,   \* per request thread: position in set_alert and its locals
  jobs,       \* per executor thread: position in check_alerts and its locals
  missed,     \* the scheduler skipped a firing during the run in progress
  call,       \* one call of get_crypto_price followed request by request
  hist        \* the rules notified by the last run and by the current one

vars == <<alerts, heap, handlers, jobs, missed, call, hist>>

\* ------------------------------------------------------------- the dict
Keys(d) == {d[i].key : i \in 1..Len(d)}
HasKey(d, k) == k \in Keys(d)
Index(d, k) == CHOOSE i \in 1..Len(d) : d[i].key = k
GetItem(d, k) == d[Index(d, k)].ref
\* d[k] = ref : a new key is appended, an existing key keeps its position
SetItem(d, k, ref) ==
  IF HasKey(d, k)
    THEN [d EXCEPT ![Index(d, k)].ref = ref]
    ELSE Append(d, [key |-> k, ref |-> ref])

RECURSIVE RuleCountFrom(_, _, _)
RuleCountFrom(d, h, i) ==
  IF i > Len(d) THEN 0 ELSE Len(h[d[i].ref]) + RuleCountFrom(d, h, i + 1)
\* the number of rules reachable from the dict
StoreRuleCount == RuleCountFrom(alerts, heap, 1)

\* ------------------------------------------------------------- set_alert
\* request.json as the registration interface types it
Requests ==
  {[crypto_symbol |-> s, upper_bound |-> b[1], lower_bound |-> b[2]] :
     s \in InputSymbols, b \in InputBounds}

NoResponse == [code |-> 0, status |-> "", message |-> ""]
ErrorResponse ==
  [code |-> 400, status |-> "error",
   message |-> "Upper bound must be greater than lower bound"]
SuccessResponse == [code |-> 200, status |-> "success", message |-> ""]

IdleHandler ==
  [pc |-> "idle", crypto_symbol |-> "", upper_bound |-> NaN,
   lower_bound |-> NaN, ref |-> 0, response |-> NoResponse, send |-> "none"]

\* mutant of RejectsBounds: the test written with < instead of <=
RejectsBoundsStrict(upper_bound, lower_bound) == FloatLT(upper_bound, lower_bound)

\* line 100: if upper_bound <= lower_bound
RejectsBounds(upper_bound, lower_bound) == FloatLE(upper_bound, lower_bound)

\* lines 106-110: the dict literal appended to the list; id is the identity
\* of the dict object (the number of the request that built it)
NewRule(h) ==
  [upper_bound |-> handlers[h].upper_bound,
   lower_bound |-> handlers[h].lower_bound, email |-> Email(h), id |-> h]

\* lines 94-104: read the request, convert, validate; when the bounds pass,
\* test `crypto_symbol not in alerts`. Requests are numbered in the order
\* they arrive. A rejected request returns at once: of its locals the model
\* keeps the two bounds it was rejected for.
Request(h, data) ==
  /\ handlers[h].pc = "idle"
  /\ \A g \in HandlerIds : g < h => handlers[g].pc # "idle"
  /\ LET crypto_symbol == lower(data.crypto_symbol)
         rejected == RejectsBounds(data.upper_bound, data.lower_bound)
     IN handlers' = [handlers EXCEPT ![h] =
          IF rejected
            THEN [IdleHandler EXCEPT !.pc = "responded",
                                     !.upper_bound = data.upper_bound,
                                     !.lower_bound = data.lower_bound,
                                     !.response = ErrorResponse]
            ELSE [pc |-> IF HasKey(alerts, crypto_symbol)
                           THEN "lookup" ELSE "create",
                  crypto_symbol |-> crypto_symbol,
                  upper_bound |-> data.upper_bound,
                  lower_bound |-> data.lower_bound,
                  ref |-> 0,
                  response |-> NoResponse,
                  send |-> "none"]]
  /\ UNCHANGED <<alerts, heap, jobs, missed>>

\* line 105: alerts[crypto_symbol] = []
CreateList(h) ==
  /\ handlers[h].pc = "create"
  /\ heap' = Append(heap, <<>>)
  /\ alerts' = SetItem(alerts, handlers[h].crypto_symbol, Len(heap) + 1)
  /\ handlers' = [handlers EXCEPT ![h].pc = "lookup"]
  /\ UNCHANGED <<jobs, missed>>

\* line 106: the subscript alerts[crypto_symbol], evaluated before the call
LookupList(h) ==
  /\ handlers[h].pc = "lookup"
  /\ handlers' = [handlers EXCEPT
       ![h].ref = GetItem(alerts, handlers[h].crypto_symbol),
       ![h].pc = "append"]
  /\ UNCHANGED <<alerts, heap, jobs, missed>>

\* lines 106-113: .append({...}) on the list found, then the success response
AppendRule(h) ==
  /\ handlers[h].pc = "append"
  /\ heap' = [heap EXCEPT ![handlers[h].ref] = Append(@, NewRule(h))]
  /\ handlers' = [handlers EXCEPT
       ![h].pc = "responded", ![h].ref = 0, ![h].response = SuccessResponse]
  /\ UNCHANGED <<alerts, jobs, missed>>

\* the registrations that returned {"status": "success"}
Succeeded == {h \in HandlerIds : handlers[h].response = SuccessResponse}

\* ------------------------------------------------------------- get_crypto_price
\* What session.get and the body give back for one call
FailureKinds == {"retries_exhausted", "non_2xx", "malformed", "missing_field"}
Replies ==
  [kind : {"ok"}, price : Prices] \cup [kind : FailureKinds, price : {NaN}]

\* response.json() on a body that is not JSON raises a subclass of
\* RequestException in one generation of the requests library and a plain
\* ValueError in the other; the repository pins neither
Builds == {"json_error_is_request_exception", "json_error_is_value_error"}

Returned(price) == [raised |-> "none", none |-> FALSE, price |-> price]
ReturnedNone == [raised |-> "none", none |-> TRUE, price |-> NaN]
Raised(exc) == [raised |-> exc, none |-> FALSE, price |-> NaN]

\* lines 37-48: only requests.exceptions.RequestException is caught
get_crypto_price(reply, build) ==
  CASE reply.kind = "ok" -> Returned(reply.price)
    [] reply.kind \in {"retries_exhausted", "non_2xx"} -> ReturnedNone
    [] reply.kind = "malformed" ->
         IF build = "json_error_is_request_exception"
           THEN ReturnedNone ELSE Raised("ValueError")
    [] reply.kind = "missing_field" -> Raised("KeyError")

\* line 34: Retry(total=5, backoff_factor=0.1, status_forcelist=[...])
total == 5
status_forcelist == {500, 502, 503, 504}

\* what one request of session.get meets: no response (connection error, or
\* the timeout of line 39), or a response with its status
AttemptOutcomes ==
  {[net |-> TRUE, status |-> 0]}
    \cup {[net |-> FALSE, status |-> c] : c \in status_forcelist \cup {200, 404}}

\* the failures the adapter retries
Transient(o) == o.net \/ o.status \in status_forcelist

\* mutant of IsExhausted: a retry object that is never exhausted (total=None)
IsExhaustedNever(left) == FALSE

\* the Retry object counts down from total at every retry and is exhausted
\* below zero
IsExhausted(left) == left < 0

IdleCall == [pc |-> "idle", left |-> 0, log |-> <<>>, result |-> ReturnedNone]

\* line 39: session.get(url, timeout=10) begins with a fresh Retry(total)
FetchCall ==
  /\ call.pc = "idle"
  /\ call' = [IdleCall EXCEPT !.pc = "request", !.left = total]
  /\ UNCHANGED <<alerts, heap, handlers, jobs, missed, hist>>

\* what the call returns once session.get has ended with `reply`
FetchEnds(c, reply, build) ==
  [c EXCEPT !.pc = "returned", !.result = get_crypto_price(reply, build)]

\* lines 39-48 and the adapter mounted at line 35: one request. A transient
\* failure is retried while the Retry object is not exhausted, then
\* session.get raises (RetryError or ConnectionError, both
\* RequestException); any other response ends session.get
FetchAttempt ==
  /\ call.pc = "request"
  /\ Len(call.log) < MaxAttempts
  /\ \E o \in AttemptOutcomes, build \in Builds :
       LET c == [call EXCEPT !.log = Append(@, o)]
       IN IF Transient(o)
            THEN IF IsExhausted(call.left - 1)
                   THEN call' = FetchEnds(c, [kind |-> "retries_exhausted",
                                              price |-> NaN], build)
                   ELSE call' = [c EXCEPT !.left = @ - 1]
          ELSE IF o.status = 200
            THEN \E reply \in Replies :
                   /\ reply.kind \in {"ok", "malformed", "missing_field"}
                   /\ call' = FetchEnds(c, reply, build)
          ELSE call' = FetchEnds(c, [kind |-> "non_2xx", price |-> NaN], build)
  /\ UNCHANGED <<alerts, heap, handlers, jobs, missed, hist>>

\* the value (or the exception) is handed to the caller at line 74
FetchReturn ==
  /\ call.pc = "returned"
  /\ call' = IdleCall
  /\ UNCHANGED <<alerts, heap, handlers, jobs, missed, hist>>

\* ------------------------------------------------------------- send_email_alert
SendOutcomes == {"sent", "connect_failed", "auth_rejected", "transmit_failed"}

\* mutant of smtp_session: the session opened without `with`, and closed by
\* a call after send_message that a failure skips
smtp_session_no_with(outcome) ==
  LET connected == outcome # "connect_failed"
      logged_in == connected /\ outcome # "auth_rejected"
  IN <<"connect">>
       \o (IF connected THEN <<"starttls", "login">> ELSE <<>>)
       \o (IF logged_in THEN <<"send_message">> ELSE <<>>)
       \o (IF outcome = "sent" THEN <<"close">> ELSE <<>>)

\* lines 57-64: the calls made on the transport, in order. SMTP(...) connects
\* (no session exists when it fails); starttls, login and send_message run
\* inside the `with` block, whose exit closes the session on every path.
smtp_session(outcome) ==
  LET connected == outcome # "connect_failed"
      logged_in == connected /\ outcome # "auth_rejected"
  IN <<"connect">>
       \o (IF connected THEN <<"starttls", "login">> ELSE <<>>)
       \o (IF logged_in THEN <<"send_message">> ELSE <<>>)
       \o (IF connected THEN <<"close">> ELSE <<>>)

\* mutant of send_email_alert: without the handler for SMTPAuthenticationError
\* and with the last handler narrowed, a rejected login escapes
send_email_alert_auth_escapes(outcome) ==
  [raised |-> outcome = "auth_rejected", delivered |-> outcome = "sent",
   session |-> smtp_session(outcome)]

\* lines 50-68: every failure inside the try block is logged and swallowed;
\* the function has no return statement
send_email_alert(outcome) ==
  [raised |-> FALSE, delivered |-> outcome = "sent",
   session |-> smtp_session(outcome)]

\* ------------------------------------------------------------- test_email
EmailSentResponse ==
  [code |-> 200, status |-> "", message |-> "Email sent successfully"]
EmailErrorResponse ==
  [code |-> 200, status |-> "", message |-> "Error sending email"]

\* lines 115-122: GET /test_email, served by a request thread like any other
\* request; `send` keeps what happened to the message
TestEmail(h, outcome) ==
  /\ handlers[h].pc = "idle"
  /\ \A g \in HandlerIds : g < h => handlers[g].pc # "idle"
  /\ LET s == send_email_alert(outcome)
     IN handlers' = [handlers EXCEPT ![h] =
          [IdleHandler EXCEPT
             !.pc = "responded", !.send = outcome,
             !.response = IF s.raised THEN EmailErrorResponse
                          ELSE EmailSentResponse]]
  /\ UNCHANGED <<alerts, heap, jobs, missed>>

\* ------------------------------------------------------------- check_alerts
\* mutant of Breach: the upper test written with >=
BreachInclusive(current_price, alert) ==
  IF FloatLE(alert.upper_bound, current_price) THEN "above"
  ELSE IF FloatLT(current_price, alert.lower_bound) THEN "below"
  ELSE "none"

\* mutant of Breach: a rule notified by the last run is left alone by this
\* one (a cooldown of one run)
BreachUnlessNotified(current_price, alert) ==
  IF alert.id \in hist.prev THEN "none"
  ELSE IF FloatGT(current_price, alert.upper_bound) THEN "above"
  ELSE IF FloatLT(current_price, alert.lower_bound) THEN "below"
  ELSE "none"

\* lines 78-85: if price > upper ... elif price < lower ...
Breach(current_price, alert) ==
  IF FloatGT(current_price, alert.upper_bound) THEN "above"
  ELSE IF FloatLT(current_price, alert.lower_bound) THEN "below"
  ELSE "none"

IdleJob ==
  [pc |-> "idle", used |-> 0, pos |-> 0, crypto_symbol |-> "",
   alert_data |-> 0, current_price |-> NaN, idx |-> 0, exc |-> "none",
   fetched |-> "none", sent |-> <<>>, last_send |-> "none", smtp |-> <<>>]

Running == {w \in WorkerIds : jobs[w].pc # "idle"}

\* line 134: add_job without max_instances, so the scheduler's default applies
max_instances == 1

\* mutant of MaySubmit: the running instances are not counted
MaySubmitAlways(running) == TRUE

\* the scheduler submits a run only below max_instances running ones
MaySubmit(running) == Cardinality(running) < max_instances

\* lines 133-135 and 70-73: the interval fires; the run is submitted to a free
\* executor thread, or skipped with a warning. A submitted run logs and
\* opens the iterator of alerts.items(), which remembers the size of the dict.
IntervalFires ==
  IF MaySubmit(Running) /\ Running # WorkerIds
    THEN LET w == CHOOSE x \in WorkerIds \ Running :
                    \A y \in WorkerIds \ Running : x <= y
         IN /\ jobs' = [jobs EXCEPT ![w] =
                 [IdleJob EXCEPT !.pc = "next_symbol", !.used = Len(alerts)]]
            /\ UNCHANGED <<alerts, heap, handlers, missed>>
    ELSE /\ missed' = TRUE
         /\ UNCHANGED <<alerts, heap, handlers, jobs>>

\* the job's locals when the outer loop takes its next item
AtSymbol(j, entry) ==
  [j EXCEPT !.pos = @ + 1, !.crypto_symbol = entry.key,
            !.alert_data = entry.ref]

\* the job's locals once the inner loop is left: the price, the list and the
\* loop variable of the symbol just finished are never read again
LeftSymbol(j) ==
  [IdleJob EXCEPT !.pc = "next_symbol", !.used = j.used, !.pos = j.pos]

\* lines 73-75: the next item of alerts.items() (the iterator raises
\* RuntimeError when the dict has changed size since it was opened), then
\* current_price = get_crypto_price(crypto_symbol); None skips the symbol
NextSymbol(w) ==
  /\ jobs[w].pc = "next_symbol"
  /\ LET j == jobs[w]
     IN IF Len(alerts) # j.used
          THEN jobs' = [jobs EXCEPT ![w] =
                 [LeftSymbol(j) EXCEPT !.pc = "raised", !.exc = "RuntimeError"]]
        ELSE IF j.pos >= Len(alerts)
          THEN jobs' = [jobs EXCEPT ![w] = [LeftSymbol(j) EXCEPT !.pc = "done"]]
        ELSE \E reply \in Replies, build \in Builds :
          LET r == get_crypto_price(reply, build)
              at == [AtSymbol(j, alerts[j.pos + 1]) EXCEPT !.fetched = reply.kind]
          IN jobs' = [jobs EXCEPT ![w] =
               IF r.raised # "none"
                 THEN [at EXCEPT !.pc = "raised", !.exc = r.raised]
               ELSE IF r.none
                 THEN [LeftSymbol(at) EXCEPT !.fetched = reply.kind]
               ELSE [at EXCEPT !.pc = "next_rule", !.current_price = r.price,
                               !.idx = 0]]
  /\ UNCHANGED <<alerts, heap, handlers, missed>>

\* lines 76-85: the next element of the list, compared and notified
NextRule(w) ==
  /\ jobs[w].pc = "next_rule"
  /\ LET j == jobs[w]
         data == heap[j.alert_data]
     IN IF j.idx >= Len(data)
          THEN jobs' = [jobs EXCEPT ![w] = LeftSymbol(j)]
          ELSE LET alert == data[j.idx + 1]
                   b == Breach(j.current_price, alert)
               IN IF b = "none"
                    THEN jobs' = [jobs EXCEPT ![w].idx = @ + 1,
                                              ![w].last_send = "none",
                                              ![w].smtp = <<>>]
                    ELSE \E outcome \in SendOutcomes :
                      LET s == send_email_alert(outcome)
                          note == [idx |-> j.idx + 1, kind |-> b,
                                   bound |-> IF b = "above"
                                               THEN alert.upper_bound
                                               ELSE alert.lower_bound,
                                   to |-> alert.email]
                      IN jobs' = [jobs EXCEPT ![w] =
                           [j EXCEPT !.idx = @ + 1,
                                     !.sent = Append(@, note),
                                     !.last_send = outcome,
                                     !.smtp = s.session,
                                     !.pc = IF s.raised THEN "raised" ELSE @,
                                     !.exc = IF s.raised THEN "SMTPException" ELSE @]]
  /\ UNCHANGED <<alerts, heap, handlers, missed>>

\* mutant of JobReturn: a run that empties the table once it has gone
\* through it (alerts.clear() before returning)
JobReturnClears(w) ==
  /\ jobs[w].pc \in {"done", "raised"}
  /\ jobs' = [jobs EXCEPT ![w] = IdleJob]
  /\ missed' = FALSE
  /\ alerts' = <<>>
  /\ UNCHANGED <<heap, handlers>>

\* line 86 and the executor: the run ends (an exception is logged by the
\* executor) and its instance is released
JobReturn(w) ==
  /\ jobs[w].pc \in {"done", "raised"}
  /\ jobs' = [jobs EXCEPT ![w] = IdleJob]
  /\ missed' = FALSE
  /\ UNCHANGED <<alerts, heap, handlers>>

\* ------------------------------------------------------------- specification
NoHistory == [prev |-> {}, cur |-> {}]

Init ==
  /\ alerts = <<>>
  /\ heap = <<>>
  /\ handlers = [h \in HandlerIds |-> IdleHandler]
  /\ jobs = [w \in WorkerIds |-> IdleJob]
  /\ missed = FALSE
  /\ call = IdleCall
  /\ hist = NoHistory

SetAlertRequest ==
  /\ \E h \in HandlerIds, data \in Requests : Request(h, data)
  /\ UNCHANGED <<call, hist>>
SetAlertCreateList ==
  /\ \E h \in HandlerIds : CreateList(h)
  /\ UNCHANGED <<call, hist>>
SetAlertLookupList ==
  /\ \E h \in HandlerIds : LookupList(h)
  /\ UNCHANGED <<call, hist>>
SetAlertAppendRule ==
  /\ \E h \in HandlerIds : AppendRule(h)
  /\ UNCHANGED <<call, hist>>
TestEmailRequest ==
  /\ \E h \in HandlerIds, outcome \in SendOutcomes : TestEmail(h, outcome)
  /\ UNCHANGED <<call, hist>>
SchedulerInterval ==
  /\ IntervalFires
  /\ UNCHANGED <<call, hist>>
CheckAlertsNextSymbol ==
  /\ \E w \in WorkerIds : NextSymbol(w)
  /\ UNCHANGED <<call, hist>>
CheckAlertsNextRule ==
  /\ \E w \in WorkerIds : NextRule(w)
  /\ UNCHANGED <<call, hist>>
CheckAlertsReturn ==
  /\ \E w \in WorkerIds : JobReturn(w)
  /\ UNCHANGED <<call, hist>>

Next ==
  \/ SetAlertRequest
  \/ SetAlertCreateList
  \/ SetAlertLookupList
  \/ SetAlertAppendRule
  \/ TestEmailRequest
  \/ SchedulerInterval
  \/ CheckAlertsNextSymbol
  \/ CheckAlertsNextRule
  \/ CheckAlertsReturn

Spec == Init /\ [][Next]_vars

\* ---- one call of get_crypto_price, request by request
NextFetch == FetchCall \/ FetchAttempt \/ FetchReturn

SpecFetch == Init /\ [][NextFetch]_vars

\* ---- runs of check_alerts one after the other over a table at rest
\* lines 92-113: set_alert for request h run from its first line to its
\* return with no other thread in between
SetAlertAlone(st, h, data) ==
  LET crypto_symbol == lower(data.crypto_symbol)
      made == IF HasKey(st.alerts, crypto_symbol) THEN st
              ELSE [st EXCEPT
                      !.alerts = SetItem(@, crypto_symbol, Len(st.heap) + 1),
                      !.heap = Append(@, <<>>)]
      rule == [upper_bound |-> data.upper_bound,
               lower_bound |-> data.lower_bound, email |-> Email(h), id |-> h]
  IN IF RejectsBounds(data.upper_bound, data.lower_bound)
       THEN [st EXCEPT !.handlers[h] =
               [IdleHandler EXCEPT !.pc = "responded",
                                   !.upper_bound = data.upper_bound,
                                   !.lower_bound = data.lower_bound,
                                   !.response = ErrorResponse]]
       ELSE [made EXCEPT
               !.heap[GetItem(made.alerts, crypto_symbol)] = Append(@, rule),
               !.handlers[h] =
                 [IdleHandler EXCEPT !.pc = "responded",
                                     !.crypto_symbol = crypto_symbol,
                                     !.upper_bound = data.upper_bound,
                                     !.lower_bound = data.lower_bound,
                                     !.response = SuccessResponse]]

RECURSIVE Served(_, _)
\* the table after the requests reqs[1..n], served one after the other
Served(reqs, n) ==
  IF n = 0
    THEN [alerts |-> <<>>, heap |-> <<>>,
          handlers |-> [h \in HandlerIds |-> IdleHandler]]
    ELSE SetAlertAlone(Served(reqs, n - 1), n, reqs[n])

InitTicks ==
  \E n \in 1..MaxRequests : \E reqs \in [1..n -> Requests] :
    /\ alerts = Served(reqs, n).alerts
    /\ heap = Served(reqs, n).heap
    /\ handlers = Served(reqs, n).handlers
    /\ jobs = [w \in WorkerIds |-> IdleJob]
    /\ missed = FALSE
    /\ call = IdleCall
    /\ hist = NoHistory

\* the inner loop step, with the rule it notified (if any) noted for the run
TickNextRule ==
  /\ \E w \in WorkerIds :
       /\ NextRule(w)
       /\ hist' = IF Len(jobs'[w].sent) > Len(jobs[w].sent)
                    THEN [hist EXCEPT !.cur = @ \cup
                            {heap[jobs[w].alert_data][jobs[w].idx + 1].id}]
                    ELSE hist
  /\ UNCHANGED call

\* the run ends: what it notified becomes what the last run notified
TickReturn ==
  /\ \E w \in WorkerIds : JobReturn(w)
  /\ hist' = [prev |-> hist.cur, cur |-> {}]
  /\ UNCHANGED call

NextTicks ==
  \/ SchedulerInterval
  \/ CheckAlertsNextSymbol
  \/ TickNextRule
  \/ TickReturn

SpecTicks == InitTicks /\ [][NextTicks]_vars

\* ------------------------------------------------------------- properties
JobsRunning == {w \in WorkerIds : jobs[w].pc \notin {"idle"}}
SendFailures == SendOutcomes \ {"sent"}

\* C1: a request whose upper_bound <= lower_bound is answered with the error
\* response {status: "error", message: "Upper bound must be greater than
\* lower bound"} and the step that handles it leaves the dict and every list
\* as they were.
C1_RejectedRequestLeavesStore ==
  [][\A h \in HandlerIds :
       (/\ handlers[h].pc = "idle"
        /\ handlers'[h].pc # "idle"
        /\ FloatLE(handlers'[h].upper_bound, handlers'[h].lower_bound))
       => (/\ handlers'[h].pc = "responded"
           /\ handlers'[h].response = ErrorResponse
           /\ alerts' = alerts
           /\ heap' = heap)]_vars

\* C1 witness: a request with upper_bound <= lower_bound has been answered
\* with the error while the store already held a rule.
C1_Witness ==
  \E h \in HandlerIds :
    /\ handlers[h].response = ErrorResponse
    /\ FloatLE(handlers[h].upper_bound, handlers[h].lower_bound)
    /\ StoreRuleCount >= 1

\* C2: within one run, a failed fetch for one symbol does not end the run
\* while other symbols of the dict are still to be visited.
C2_FetchFailureIsolated ==
  \A w \in WorkerIds :
    (jobs[w].fetched \in FailureKinds /\ jobs[w].pos < jobs[w].used)
      => jobs[w].pc # "raised"

\* C3: no registration is lost: the number of rules held in the store equals
\* the number of registration calls that returned success.
C3_NoRegistrationLost == StoreRuleCount = Cardinality(Succeeded)

\* C4: a run that started on a dict holding symbols, and whose dict gained a
\* key while the run was in its loop, does not fail on it.
C4_IterationSurvivesRegistration ==
  \A w \in WorkerIds :
    (jobs[w].pc # "idle" /\ jobs[w].used >= 1 /\ Len(alerts) > jobs[w].used)
      => jobs[w].exc # "RuntimeError"

\* C5: a send that fails (connection, authentication or transmission) does
\* not end the run: the step that sent it leaves the job in the inner loop,
\* at the rule after the one notified, with no exception.
C5_SendFailureIsolated ==
  [][\A w \in WorkerIds :
       (jobs'[w].sent # jobs[w].sent /\ jobs'[w].last_send \in SendFailures)
       => (/\ jobs'[w].pc = "next_rule"
           /\ jobs'[w].exc = "none"
           /\ jobs'[w].idx = jobs[w].idx + 1
           /\ jobs'[w].pos = jobs[w].pos)]_vars

\* C5 witness: the send for a rule failed and another rule follows it in the
\* same list, still to be evaluated by the same run.
C5_Witness ==
  \E w \in WorkerIds :
    /\ jobs[w].pc = "next_rule"
    /\ jobs[w].last_send \in SendFailures
    /\ jobs[w].idx < Len(heap[jobs[w].alert_data])

\* C6: every run returns normally: no exception escapes check_alerts.
C6_TickReturnsNormally == \A w \in WorkerIds : jobs[w].pc # "raised"

\* C7: in the inner loop of a run, with the price fetched for the symbol:
\* when the price is above the upper_bound of every rule of the list, each
\* rule evaluated so far has exactly one notification, an "above" one for its
\* upper_bound to its own recipient; a rule evaluated with the price within
\* its bounds has none; and the loop is left only when every rule of the list
\* has been evaluated.
C7_InnerLoop(w) ==
  LET j == jobs[w]
      data == heap[j.alert_data]
      notes(i) == {n \in 1..Len(j.sent) : j.sent[n].idx = i}
      above(i) == FloatGT(j.current_price, data[i].upper_bound)
      within(i) == /\ FloatLE(data[i].lower_bound, j.current_price)
                   /\ FloatLE(j.current_price, data[i].upper_bound)
  IN j.pc = "next_rule" =>
       /\ j.idx <= Len(data)
       /\ (\A i \in 1..Len(data) : above(i)) =>
            \A i \in 1..j.idx :
              /\ Cardinality(notes(i)) = 1
              /\ \A n \in notes(i) :
                   j.sent[n] = [idx |-> i, kind |-> "above",
                                bound |-> data[i].upper_bound,
                                to |-> data[i].email]
       /\ \A i \in 1..j.idx : within(i) => notes(i) = {}

C7_BreachNotifiedOnce ==
  /\ [](\A w \in WorkerIds : C7_InnerLoop(w))
  /\ [][\A w \in WorkerIds :
          (jobs[w].pc = "next_rule" /\ jobs'[w].pc \notin {"next_rule", "raised"})
          => jobs[w].idx = Len(heap[jobs[w].alert_data])]_vars

\* C7 witness: two rules under one symbol, the price above both upper bounds,
\* both evaluated and two notifications sent.
C7_Witness ==
  \E w \in WorkerIds :
    LET j == jobs[w] IN
    /\ j.pc = "next_rule"
    /\ Len(heap[j.alert_data]) = 2
    /\ j.idx = 2
    /\ \A i \in 1..2 : FloatGT(j.current_price, heap[j.alert_data][i].upper_bound)
    /\ Len(j.sent) = 2

\* C8: at most one run of check_alerts is in progress, and a firing of the
\* interval during a run starts no second run.
C8_TicksNeverOverlap ==
  /\ Cardinality(JobsRunning) <= 1
  /\ missed => Cardinality(JobsRunning) = 1

\* C8 witness: the interval fired while a run was in its inner loop, and the
\* firing was skipped.
C8_Witness ==
  /\ missed
  /\ \E w \in WorkerIds : jobs[w].pc = "next_rule"

\* C9: once a registration has returned success its rule is in the list the
\* dict holds under its normalized symbol.
C9_SucceededRuleVisible ==
  \A h \in Succeeded :
    /\ HasKey(alerts, handlers[h].crypto_symbol)
    /\ LET data == heap[GetItem(alerts, handlers[h].crypto_symbol)]
       IN \E i \in 1..Len(data) : data[i].id = h

\* C10: get_crypto_price answers every failed fetch with None and never
\* raises: after a failed fetch the run goes on to the next symbol.
C10_FetchFailureReturnsNone ==
  \A w \in WorkerIds :
    jobs[w].fetched \in FailureKinds
      => (jobs[w].exc = "none" /\ jobs[w].pc = "next_symbol")

\* C11: test_email answers 'Email sent successfully' only when the message
\* was transmitted: send_email_alert lets its caller tell a send that
\* succeeded from one that failed.
C11_TestEmailReportsOutcome ==
  \A h \in HandlerIds :
    handlers[h].response = EmailSentResponse => handlers[h].send = "sent"

\* C12: every rule held in the store has upper_bound > lower_bound.
C12_StoredBoundsOrdered ==
  \A i \in 1..Len(alerts) :
    \A n \in 1..Len(heap[alerts[i].ref]) :
      FloatGT(heap[alerts[i].ref][n].upper_bound,
              heap[alerts[i].ref][n].lower_bound)

\* C13: no step of a run of check_alerts writes to the store: whenever a job
\* thread moves, the dict and every list object are what they were.
C13_TickLeavesStore ==
  [][jobs' # jobs => (alerts' = alerts /\ heap' = heap)]_vars

\* C13 witness: a run has gone through a dict that holds a rule and has
\* reached its end.
C13_Witness ==
  \E w \in WorkerIds :
    /\ jobs[w].pc = "done"
    /\ jobs[w].used >= 1
    /\ StoreRuleCount >= 1

\* C14: the store is append-only: in every step each key of the dict keeps
\* its place, and the rules held under it before the step are still held
\* under it after the step, in the same order, as the first elements of its
\* list.
C14_StoreAppendOnly ==
  [][/\ Len(alerts') >= Len(alerts)
     /\ \A i \in 1..Len(alerts) :
          /\ alerts'[i].key = alerts[i].key
          /\ LET old == heap[alerts[i].ref]
                 new == heap'[alerts'[i].ref]
             IN /\ Len(new) >= Len(old)
                /\ SubSeq(new, 1, Len(old)) = old]_vars

\* C15: every key of the dict is a symbol in lower case, held once, and any
\* two registrations that returned success for symbols with the same
\* lower-case form (symbols that differ only in letter case among them) have
\* their rules in one and the same list, the one the dict holds under that
\* key.
C15_CaseInsensitiveKey ==
  /\ \A i \in 1..Len(alerts) :
       /\ alerts[i].key \in {"btc", "eth"}
       /\ \A k \in 1..Len(alerts) : alerts[k].key = alerts[i].key => k = i
  /\ \A g, h \in Succeeded :
       handlers[g].crypto_symbol = handlers[h].crypto_symbol =>
         \E i \in 1..Len(alerts) :
           /\ alerts[i].key = handlers[h].crypto_symbol
           /\ \E m, n \in 1..Len(heap[alerts[i].ref]) :
                /\ heap[alerts[i].ref][m].id = g
                /\ heap[alerts[i].ref][n].id = h

\* C16: a run of check_alerts calls get_crypto_price exactly once for each
\* symbol of the dict it went through: when the run ends, the number of
\* calls it made is the number of symbols the dict held.
C16_EachSymbolFetchedOnce ==
  \A w \in WorkerIds :
    jobs[w].pc \in {"done", "raised"} => jobs[w].pos = jobs[w].used

\* C17: every notification of a run answers to one rule of the store: the
\* rule at the notified position of the list the dict holds under the
\* symbol being visited, with the price fetched for that symbol strictly
\* above its upper_bound or strictly below its lower_bound, addressed to
\* that rule's email; no rule is notified twice, and without a fetched price
\* nothing is notified.
C17_NoSendWithoutBreach ==
  \A w \in WorkerIds :
    LET j == jobs[w] IN
    \A n \in 1..Len(j.sent) :
      /\ j.fetched = "ok"
      /\ HasKey(alerts, j.crypto_symbol)
      /\ LET data == heap[GetItem(alerts, j.crypto_symbol)]
             note == j.sent[n]
         IN /\ note.idx \in 1..Len(data)
            /\ note.to = data[note.idx].email
            /\ \/ /\ note.kind = "above"
                  /\ FloatGT(j.current_price, data[note.idx].upper_bound)
               \/ /\ note.kind = "below"
                  /\ FloatLT(j.current_price, data[note.idx].lower_bound)
      /\ \A m \in 1..Len(j.sent) : j.sent[m].idx = j.sent[n].idx => m = n

\* C20: a send uses one transport session, in the order connect,
\* authenticate, transmit, close: send_message is called only after a login
\* that was accepted, a rejected login transmits nothing, and a session that
\* was opened has been closed when send_email_alert returns.
C20_SessionScoped ==
  \A w \in WorkerIds :
    LET t == jobs[w].smtp
        at(op) == {n \in 1..Len(t) : t[n] = op}
    IN jobs[w].last_send # "none" =>
         /\ at("connect") = {1}
         /\ \A n \in at("send_message") :
              /\ \E m \in at("login") : m < n
              /\ jobs[w].last_send \notin {"connect_failed", "auth_rejected"}
         /\ jobs[w].last_send = "auth_rejected" =>
              (at("login") # {} /\ at("send_message") = {})
         /\ jobs[w].last_send = "sent" => at("send_message") # {}
         /\ jobs[w].last_send # "connect_failed" =>
              (at("close") = {Len(t)} /\ Cardinality(at("login")) = 1)
         /\ jobs[w].last_send = "connect_failed" => t = <<"connect">>

\* C20 witness: a send whose login was rejected has returned to the inner
\* loop: nothing was transmitted and the session is closed.
C20_Witness ==
  \E w \in WorkerIds :
    /\ jobs[w].pc = "next_rule"
    /\ jobs[w].last_send = "auth_rejected"
    /\ jobs[w].smtp = <<"connect", "starttls", "login", "close">>

\* the notifications the inner loop owes after its first idx rules, from the
\* list and the price alone
RECURSIVE C18_Owed(_, _, _)
C18_Owed(data, price, idx) ==
  IF idx = 0 THEN <<>>
  ELSE LET rule == data[idx]
           before == C18_Owed(data, price, idx - 1)
       IN IF FloatGT(price, rule.upper_bound)
            THEN Append(before, [idx |-> idx, kind |-> "above",
                                 bound |-> rule.upper_bound, to |-> rule.email])
          ELSE IF FloatLT(price, rule.lower_bound)
            THEN Append(before, [idx |-> idx, kind |-> "below",
                                 bound |-> rule.lower_bound, to |-> rule.email])
          ELSE before

\* C18: evaluation keeps no memory between runs: the notifications of a run
\* for a symbol are those its list and the price fetched in this run call
\* for, whatever earlier runs did; in particular a rule the last run
\* notified and whose bounds the price of this run is outside of again is
\* notified again.
C18_MemorylessEvaluation ==
  \A w \in WorkerIds :
    LET j == jobs[w]
        data == heap[j.alert_data]
    IN j.pc = "next_rule" =>
         /\ j.sent = C18_Owed(data, j.current_price, j.idx)
         /\ \A i \in 1..j.idx :
              (/\ data[i].id \in hist.prev
               /\ \/ FloatGT(j.current_price, data[i].upper_bound)
                  \/ FloatLT(j.current_price, data[i].lower_bound))
              => (/\ data[i].id \in hist.cur
                  /\ \E n \in 1..Len(j.sent) : j.sent[n].idx = i)

\* C18 witness: a rule notified by the last run has been notified again by
\* the run in progress.
C18_Witness ==
  \E w \in WorkerIds :
    /\ jobs[w].pc = "next_rule"
    /\ \E i \in 1..jobs[w].idx :
         /\ heap[jobs[w].alert_data][i].id \in hist.prev \cap hist.cur
         /\ \E n \in 1..Len(jobs[w].sent) : jobs[w].sent[n].idx = i

\* C19: a call of get_crypto_price ends after a bounded number of requests:
\* only a transient failure (no response, or status 500/502/503/504) is
\* followed by another request, at most 5 requests are retries, every retry
\* uses up one of the retries left, and a call whose retries are used up
\* returns None without raising.
C19_FetchBounded ==
  /\ [](/\ Len(call.log) - 1 <= 5
        /\ call.pc = "request" =>
             \A n \in 1..Len(call.log) :
               call.log[n].net \/ call.log[n].status \in {500, 502, 503, 504}
        /\ (call.pc = "returned" /\ Len(call.log) = 6) =>
             \/ call.log[6].status \in {200, 404}
             \/ call.result = [raised |-> "none", none |-> TRUE, price |-> NaN])
  /\ [][(call.pc = "request" /\ call'.pc = "request")
          => (call'.left < call.left /\ call'.left >= 0)]_vars

\* C19 witness: a call has met six transient failures, the first request and
\* five retries, and has returned None.
C19_Witness ==
  /\ call.pc = "returned"
  /\ Len(call.log) = 6
  /\ \A n \in 1..6 : call.log[n].net \/ call.log[n].status = 503
  /\ call.result.none

====
